---- MODULE Spec2Model ----
(***************************************************************************)
(* JuaAI Smart Farmer: the crop-analysis pipeline (CropAI.analyzeImage in  *)
(* its three shipped builds), the StorageManager history it persists to,   *)
(* and the remote classification endpoint it calls.                        *)
(*                                                                         *)
(* Numbers: a confidence is kept in thousandths (0.82 is 820, 75.2 is      *)
(* 75200, 100 percent is 100000); Math.random() is a value 0..999 in       *)
(* thousandths of the half-open interval [0,1).                            *)
(***************************************************************************)
EXTENDS Integers, Sequences, FiniteSets, TLC

VARIABLES
    variant,        \* which build of scripts/cropAI.js is loaded
    history,        \* localStorage['juaai_analysis_history'], parsed
    now,            \* Date.now()
    diseases,       \* CropAI.diseases
    pc,             \* position of each analyzeImage invocation
    loadingHidden,  \* #loading has class 'hidden'
    resultView,     \* #analysis-result: hidden flag and what it shows
    notice,         \* text of the last app.showNotification
    quotaLeft,      \* storage writes the browser may still reject
    remote,         \* per invocation: how the remote attempt resolved
    produced,       \* per invocation: the records it persisted, in order
    events,         \* per invocation: prediction fetches, resolution, simulations, in order
    calls,          \* number of saveAnalysisResult calls made so far
    appended,       \* records whose saveAnalysisResult returned true, newest first
    historyKind,    \* JSON type of the stored history: "array", or "object" after a bad import
    cache,          \* localStorage['juaai_cache'], parsed: key -> entry
    denied,         \* the browser refuses access to localStorage (every access throws)
    last,           \* the last StorageManager call: its name, argument and outcome
    swState,        \* service worker: "installing" or "active"
    swCache,        \* service worker: URLs held in the Cache Storage
    online,         \* service worker: the network is reachable
    answered,       \* service worker: the last fetch event and what respondWith got
    currentTab,     \* JuaAIApp.currentTab: the tab whose content is active
    prefs,          \* localStorage['juaai_user_preferences'], parsed
    weatherCache,   \* WeatherManager.cache: location -> {data, timestamp}
    weatherShown    \* what displayWeather / displayDashboardWeather last rendered

storeVars == <<historyKind, cache, denied, last>>
swVars == <<swState, swCache, online, answered>>
uiVars == <<currentTab, prefs, weatherCache, weatherShown>>

vars == <<variant, history, now, diseases, pc, loadingHidden,
          resultView, notice, quotaLeft, remote, produced, events, calls, appended,
          storeVars, swVars, uiVars>>

----------------------------------------------------------------------------
(* Bounds of the model *)

MaxInv == 1         \* analyzeImage invocations (they may overlap)
MaxNow == 1         \* clock ticks
MaxQuotaFaults == 1 \* storage writes rejected by the browser
MaxCalls == 52      \* saveAnalysisResult calls in the history specification

(* Program constants *)

maxHistoryItems == 50
Scale == 10 * 10 * 10       \* model unit: thousandths per unit
Percent == 100 * Scale      \* 100 percent

Invs == 1..MaxInv
Variants == {"p4", "p5", "p6"}
Draws == {0, 999}           \* Math.random() values, in thousandths: the ends of [0,1)

----------------------------------------------------------------------------
(* JavaScript values *)

Num(v) == [k |-> "num", v |-> v]
NaN == [k |-> "nan", v |-> 0]
Undefined == [k |-> "undefined", v |-> 0]
Null == [k |-> "null", v |-> 0]

List(items) == [shape |-> "list", items |-> items]
Text == [shape |-> "string", items |-> <<>>]     \* a non-empty string where a list is expected
NoList == [shape |-> "absent", items |-> <<>>]

Truthy(l) == l.shape = "list" \/ l.shape = "string"

\* x * 100 for a JavaScript number or undefined
Times100(c) == IF c.k = "num" THEN Num(c.v * 100) ELSE NaN

\* [...a, ...b]: spreading undefined throws; a string spreads into characters
SpreadThrows(l) == l.shape = "absent"
Spread(l) == IF l.shape = "list" THEN l.items ELSE <<"char">>

\* x.length > 0 followed by x.map(...): a string has a length but no map
MapThrows(l) == l.shape = "string"

----------------------------------------------------------------------------
(* Remote payloads: the JSON body of a 2xx answer of the prediction endpoint *)

EmptyPayload ==
    [status |-> "absent", prediction |-> "absent", confidence |-> Undefined,
     treatment |-> FALSE, t_maintenance |-> NoList, t_immediate |-> NoList,
     t_treatments |-> NoList, t_prevention |-> NoList,
     suggestions |-> FALSE, s_immediate |-> NoList, s_options |-> NoList,
     s_maintenance |-> NoList, s_prevention |-> NoList, s_severity |-> "absent",
     result |-> "absent", recommendations |-> NoList, prevention |-> NoList,
     symptoms |-> NoList, severity |-> "absent"]

\* what the service worker answers for /api/ URLs when offline
OfflineBody == EmptyPayload

\* the shape processBackendResult reads, confidence a fraction
SuccessDiseased ==
    [EmptyPayload EXCEPT !.status = "success", !.prediction = "diseased",
        !.confidence = Num(820), !.treatment = TRUE,
        !.t_immediate = List(<<"ia1">>), !.t_treatments = List(<<"tr1">>),
        !.t_prevention = List(<<"pv1">>)]

SuccessHealthy ==
    [EmptyPayload EXCEPT !.status = "success", !.prediction = "healthy",
        !.confidence = Num(900), !.treatment = TRUE,
        !.t_maintenance = List(<<"mt1">>)]

\* as SuccessHealthy, with a sentence where the list of tips is expected
SuccessHealthyText ==
    [SuccessHealthy EXCEPT !.t_maintenance = Text, !.recommendations = Text]

\* as SuccessDiseased, without the treatments list
SuccessNoTreatments ==
    [SuccessDiseased EXCEPT !.t_treatments = NoList]

\* a percentage where processBackendResult expects a fraction
SuccessPercent ==
    [SuccessDiseased EXCEPT !.confidence = Num(75200)]

SuccessNoConfidence ==
    [SuccessDiseased EXCEPT !.confidence = Undefined]

\* README "Response format" of POST /api/predict
ReadmePredict ==
    [EmptyPayload EXCEPT !.prediction = "diseased", !.confidence = Num(75200),
        !.suggestions = TRUE, !.s_immediate = List(<<"ia1", "ia2">>),
        !.s_options = List(<<"to1">>), !.s_prevention = List(<<"pt1">>)]

\* a healthy prediction whose suggestions carry a severity
HealthySevere ==
    [EmptyPayload EXCEPT !.prediction = "healthy", !.confidence = Num(90000),
        !.suggestions = TRUE, !.s_maintenance = List(<<"mt1">>),
        !.s_severity = "high"]

\* suggestions with a sentence where a list is expected
SuggestionsText ==
    [ReadmePredict EXCEPT !.s_immediate = Text]

\* a confidence above 100 percent
OverPredict ==
    [EmptyPayload EXCEPT !.prediction = "diseased", !.confidence = Num(150000)]

\* README example response of POST /predict
ReadmeClassify ==
    [EmptyPayload EXCEPT !.status = "diseased", !.confidence = Num(78500),
        !.result = "Disease Detected", !.recommendations = List(<<"rc1">>),
        !.symptoms = List(<<"sy1">>), !.prevention = List(<<"pv1">>),
        !.severity = "medium"]

ErrorBody == [EmptyPayload EXCEPT !.status = "error"]

Payloads ==
    {OfflineBody, SuccessDiseased, SuccessHealthy, SuccessHealthyText,
     SuccessNoTreatments, SuccessPercent, SuccessNoConfidence, ReadmePredict,
     HealthySevere, SuggestionsText, OverPredict,
     ReadmeClassify, ErrorBody}

----------------------------------------------------------------------------
(* Analysis records *)

Absent == [k |-> "absent", v |-> 0]

BlankRecord ==
    [id |-> 0, date |-> 0, timestamp |-> 0, status |-> "absent",
     confidence |-> Absent, result |-> "absent", severity |-> "absent",
     recommendations |-> NoList, prevention |-> NoList, symptoms |-> NoList,
     fromBackend |-> "absent", backend_used |-> "absent", source |-> "absent"]

\* storage.js getDiseases: the mock disease database (lists abbreviated to their head)
DiseaseDatabase ==
    << [name |-> "Tomato Late Blight", severity |-> "high",
        treatments |-> List(<<"Apply copper-based fungicide immediately">>),
        symptoms |-> List(<<"Dark brown or black lesions on leaves">>),
        prevention |-> List(<<"Choose resistant varieties">>)],
       [name |-> "Maize Streak Virus", severity |-> "medium",
        treatments |-> List(<<"Control leafhopper vectors with insecticides">>),
        symptoms |-> List(<<"Yellow streaks parallel to leaf veins">>),
        prevention |-> List(<<"Plant resistant varieties">>)],
       [name |-> "Coffee Berry Disease", severity |-> "high",
        treatments |-> List(<<"Apply copper-based fungicides">>),
        symptoms |-> List(<<"Dark sunken lesions on berries">>),
        prevention |-> List(<<"Plant resistant coffee varieties">>)],
       [name |-> "Bean Common Mosaic Virus", severity |-> "medium",
        treatments |-> List(<<"Remove infected plants immediately">>),
        symptoms |-> List(<<"Mosaic patterns on leaves">>),
        prevention |-> List(<<"Use certified virus-free seeds">>)] >>

HealthyRecommendations ==
    List(<<"Continue current care routine",
           "Monitor for any changes in plant health",
           "Maintain proper watering schedule",
           "Ensure adequate nutrition">>)

\* getHealthyResult: confidence 85 + Math.random() * 10
getHealthyResult(v, t, r) ==
    [BlankRecord EXCEPT !.id = t, !.date = t, !.status = "healthy",
        !.confidence = Num(85 * Scale + r * 10),
        !.result = "Healthy Crop",
        !.recommendations = HealthyRecommendations,
        !.severity = "none",
        !.backend_used = IF v = "p5" THEN "false" ELSE "absent"]

\* getDiseaseResult with the spread of the random term widened to 30
getDiseaseResultWide(v, disease, t, r) ==
    [BlankRecord EXCEPT !.id = t, !.date = t, !.status = "disease_detected",
        !.confidence = Num(70 * Scale + r * 30),
        !.result = disease.name,
        !.recommendations = disease.treatments,
        !.severity = disease.severity,
        !.symptoms = disease.symptoms,
        !.prevention = disease.prevention,
        !.backend_used = IF v = "p5" THEN "false" ELSE "absent"]

\* getDiseaseResult: confidence 70 + Math.random() * 20
getDiseaseResult(v, disease, t, r) ==
    [BlankRecord EXCEPT !.id = t, !.date = t, !.status = "disease_detected",
        !.confidence = Num(70 * Scale + r * 20),
        !.result = disease.name,
        !.recommendations = disease.treatments,
        !.severity = disease.severity,
        !.symptoms = disease.symptoms,
        !.prevention = disease.prevention,
        !.backend_used = IF v = "p5" THEN "false" ELSE "absent"]

\* Math.floor(Math.random() * length), as a 1-based index
RandomIndex(r, len) == ((r * len) \div Scale) + 1

\* simulateAnalysis: healthy when no database is loaded or Math.random() > 0.3
simulateAnalysis(v, db, t, rHealthy, rIndex, rConf) ==
    IF Len(db) = 0
    THEN getHealthyResult(v, t, rConf)
    ELSE IF rHealthy > 300
         THEN getHealthyResult(v, t, rConf)
         ELSE getDiseaseResult(v, db[RandomIndex(rIndex, Len(db))], t, rConf)

\* processBackendResult (first build): throws when a list it spreads is missing
processThrows(p) ==
    /\ p.treatment
    /\ ~(p.prediction = "healthy" /\ Truthy(p.t_maintenance))
    /\ p.prediction = "diseased" /\ Truthy(p.t_immediate)
    /\ (SpreadThrows(p.t_immediate) \/ SpreadThrows(p.t_treatments))

processBackendResult(p, t) ==
    LET healthy == p.prediction = "healthy"
        base == [BlankRecord EXCEPT !.id = t, !.date = t,
                    !.status = IF healthy THEN "healthy" ELSE "disease_detected",
                    !.confidence = Times100(p.confidence),
                    !.result = IF healthy THEN "Healthy Crop" ELSE "Disease Detected",
                    !.recommendations = List(<<>>),
                    !.severity = IF healthy THEN "none" ELSE "medium",
                    !.fromBackend = "true"]
    IN  IF ~p.treatment THEN base
        ELSE IF healthy /\ Truthy(p.t_maintenance)
             THEN [base EXCEPT !.recommendations = p.t_maintenance]
        ELSE IF p.prediction = "diseased" /\ Truthy(p.t_immediate)
             THEN [base EXCEPT
                     !.recommendations = List(Spread(p.t_immediate) \o Spread(p.t_treatments)),
                     !.prevention = p.t_prevention]
        ELSE base

\* recommendations.push(...group) for a group that is present
Pushed(l) == IF Truthy(l) THEN Spread(l) ELSE <<>>

\* convertBackendResult (second build)
convertBackendResult(p, t) ==
    LET healthy == p.prediction = "healthy"
        sev == IF p.suggestions /\ p.s_severity # "absent" THEN p.s_severity
               ELSE IF healthy THEN "none" ELSE "medium"
        recs == IF p.suggestions
                THEN Pushed(p.s_immediate) \o Pushed(p.s_options) \o Pushed(p.s_maintenance)
                ELSE <<>>
    IN  [BlankRecord EXCEPT !.id = t, !.date = t,
            !.status = IF healthy THEN "healthy" ELSE "disease_detected",
            !.confidence = p.confidence,
            !.result = IF healthy THEN "Healthy Crop" ELSE "Disease Detected",
            !.recommendations = List(recs),
            !.severity = sev,
            !.backend_used = "true"]

\* analyzeWithBackend (third build): the parsed body itself, with metadata added
stampBackendResult(p, t) ==
    [BlankRecord EXCEPT !.id = t, !.date = t, !.source = "backend",
        !.status = p.status, !.confidence = p.confidence, !.result = p.result,
        !.severity = p.severity, !.recommendations = p.recommendations,
        !.prevention = p.prevention, !.symptoms = p.symptoms]

\* analyzeImageLocally (third build) marks the simulated record
markLocal(r) == [r EXCEPT !.source = "local"]

\* displayAnalysisResult of a record (first and third build): throws on a
\* non-empty string where it maps over a list
displayThrows(r) ==
    \/ MapThrows(r.symptoms)
    \/ MapThrows(r.recommendations)
    \/ /\ r.recommendations.shape = "list" /\ Len(r.recommendations.items) > 0
       /\ MapThrows(r.prevention)

\* displayAnalysisResult / displaySuggestions of a raw backend result (second build)
displayRawThrows(p) ==
    \/ MapThrows(p.symptoms)
    \/ IF p.suggestions
       THEN \/ MapThrows(p.s_immediate) \/ MapThrows(p.s_options)
            \/ MapThrows(p.s_maintenance) \/ MapThrows(p.s_prevention)
       ELSE \/ MapThrows(p.recommendations)
            \/ /\ p.recommendations.shape = "list" /\ Len(p.recommendations.items) > 0
               /\ MapThrows(p.prevention)

----------------------------------------------------------------------------
(* StorageManager *)

\* JSON.stringify then JSON.parse of one value: NaN becomes null, an
\* undefined property is dropped
JsonValue(c) ==
    IF c.k = "nan" THEN Null ELSE IF c.k = "undefined" THEN Absent ELSE c

JsonRecord(r) == [r EXCEPT !.confidence = JsonValue(r.confidence)]

JsonHistory(h) == [i \in 1..Len(h) |-> JsonRecord(h[i])]

\* setItem: the value as localStorage holds it afterwards; a rejected write
\* (quota) is caught and leaves the stored value as it was
setItem(stored, value, writeOk) == IF writeOk THEN JsonHistory(value) ELSE stored

\* if (!result.timestamp) result.timestamp = Date.now()
withTimestamp(r, t) == IF r.timestamp = 0 THEN [r EXCEPT !.timestamp = t] ELSE r

\* unshift, then splice(0, length - maxHistoryItems): drops from the head
unshiftCappedFromHead(h, r) ==
    LET h1 == <<r>> \o h
    IN  IF Len(h1) > maxHistoryItems
        THEN SubSeq(h1, Len(h1) - maxHistoryItems + 1, Len(h1)) ELSE h1

\* history.unshift(result); splice(maxHistoryItems) when longer
unshiftCapped(h, r) ==
    LET h1 == <<r>> \o h
    IN  IF Len(h1) > maxHistoryItems THEN SubSeq(h1, 1, maxHistoryItems) ELSE h1

\* saveAnalysisResult: the stored history afterwards
saveAnalysisResult(stored, result, t, writeOk) ==
    setItem(stored, unshiftCapped(stored, withTimestamp(result, t)), writeOk)

\* getAnalysisHistory: getItem(...) || []; a refused read is caught in
\* getItem and gives null, hence the empty array; a stored JSON object is
\* returned as it is
getAnalysisHistory(kind, stored, refused) ==
    IF refused THEN [kind |-> "array", items |-> <<>>]
    ELSE [kind |-> kind, items |-> stored]

\* getRecentScans: history.slice(0, limit) mapped to the five summary fields;
\* date is item.date || new Date(item.timestamp).toISOString()
ScanSummary(item) ==
    [id |-> item.id,
     date |-> IF item.date # 0 THEN item.date ELSE item.timestamp,
     result |-> item.result, status |-> item.status, confidence |-> item.confidence]

\* the slice taken from the other end of the array
getRecentScansFromTail(h, limit) ==
    LET n == IF limit < Len(h) THEN limit ELSE Len(h)
    IN  [i \in 1..n |-> ScanSummary(h[Len(h) - n + i])]

getRecentScans(h, limit) ==
    LET n == IF limit < Len(h) THEN limit ELSE Len(h)
    IN  [i \in 1..n |-> ScanSummary(h[i])]

\* history.filter(item => item.id !== id)
WithoutId(h, id) == SelectSeq(h, LAMBDA item : item.id # id)

\* cleanupOldData: keeps the items whose date (or timestamp) is later than
\* the cutoff
ItemDate(item) == IF item.date # 0 THEN item.date ELSE item.timestamp
NewerThan(h, cutoff) == SelectSeq(h, LAMBDA item : ItemDate(item) > cutoff)

----------------------------------------------------------------------------
(* getAnalysisStatistics *)

\* an average is kept as the exact fraction num/den; den = 0 stands for NaN
Fraction(n, d) == [num |-> n, den |-> d]

EmptyStatistics ==
    [total |-> 0, healthy |-> 0, diseased |-> 0, lastAnalysis |-> Null,
     mostCommonDisease |-> "null", averageConfidence |-> Fraction(0, 1)]

\* the items that add to diseaseCount
Counted(item) ==
    /\ item.status # "healthy"
    /\ item.result # "absent"
    /\ item.result # "Healthy Crop"

\* Object.keys(diseaseCount): the counted results in order of first appearance
RECURSIVE DiseaseKeys(_, _)
DiseaseKeys(h, seen) ==
    IF h = <<>> THEN <<>>
    ELSE IF Counted(Head(h)) /\ Head(h).result \notin seen
         THEN <<Head(h).result>> \o DiseaseKeys(Tail(h), seen \cup {Head(h).result})
         ELSE DiseaseKeys(Tail(h), seen)

DiseaseCount(h, name) ==
    Cardinality({i \in 1..Len(h) : Counted(h[i]) /\ h[i].result = name})

\* diseases.reduce((a, b) => diseaseCount[a] > diseaseCount[b] ? a : b)
RECURSIVE ReduceCommon(_, _, _)
ReduceCommon(h, a, keys) ==
    IF keys = <<>> THEN a
    ELSE ReduceCommon(h,
                      IF DiseaseCount(h, a) > DiseaseCount(h, Head(keys))
                      THEN a ELSE Head(keys),
                      Tail(keys))

\* totalConfidence += item.confidence || 0
RECURSIVE TotalConfidence(_)
TotalConfidence(h) ==
    IF h = <<>> THEN 0
    ELSE (IF Head(h).confidence.k = "num" THEN Head(h).confidence.v ELSE 0)
         + TotalConfidence(Tail(h))

\* the statistics computed over a history of any length
TallyStatistics(h) ==
    LET keys == DiseaseKeys(h, {})
        healthy == Cardinality({i \in 1..Len(h) : h[i].status = "healthy"})
    IN  [total |-> Len(h),
         healthy |-> healthy,
         diseased |-> Len(h) - healthy,
         lastAnalysis |-> IF h = <<>> THEN Undefined
                          ELSE IF ItemDate(h[1]) # 0 THEN Num(ItemDate(h[1]))
                          ELSE Undefined,
         mostCommonDisease |-> IF keys = <<>> THEN "null"
                               ELSE ReduceCommon(h, Head(keys), Tail(keys)),
         averageConfidence |-> Fraction(TotalConfidence(h), Len(h))]

\* the statistics without the early return
getAnalysisStatisticsUnguarded(h) == TallyStatistics(h)

\* getAnalysisStatistics: the defaults are returned early for an empty history
getAnalysisStatistics(h) ==
    IF Len(h) = 0 THEN EmptyStatistics ELSE TallyStatistics(h)

----------------------------------------------------------------------------
(* The cache with expiry *)

TicksPerMinute == 1 + 1         \* the clock of the model ticks every 30 s
CacheKeys == {"diseases", "tips_en"}
NoEntry == [data |-> "absent", timestamp |-> 0, expiry |-> 0]

\* setCachedData: the entry written under the key
CacheEntry(data, t, expireInMinutes) ==
    [data |-> data, timestamp |-> t, expiry |-> t + expireInMinutes * TicksPerMinute]

\* a cache that tolerates an entry for one more tick
ExpiredLate(entry, t) == t > entry.expiry + 1

\* getCachedData: if (Date.now() > cacheItem.expiry) the entry is expired
Expired(entry, t) == t > entry.expiry

----------------------------------------------------------------------------
(* The last StorageManager call *)

NoCall ==
    [op |-> "none", arg |-> 0, key |-> "none", threw |-> FALSE, fault |-> FALSE, ok |-> TRUE,
     scans |-> <<>>, stats |-> EmptyStatistics, data |-> "absent", evicted |-> FALSE]

----------------------------------------------------------------------------
(* The result view *)

\* displayAnalysisResult of a record: the container is revealed first, the
\* main panel is replaced unless its template throws, then the suggestions
showRecord(view, r) ==
    IF MapThrows(r.symptoms)
    THEN [view EXCEPT !.hidden = FALSE]
    ELSE IF displayThrows(r)
    THEN [view EXCEPT !.hidden = FALSE, !.main = r.result]
    ELSE [hidden |-> FALSE, main |-> r.result,
          suggestions |-> IF r.recommendations.shape = "list"
                             /\ Len(r.recommendations.items) > 0
                          THEN "recommendations" ELSE "none"]

\* the second build displays the raw backend result
showRaw(view, p) ==
    LET label == IF p.prediction # "absent" THEN p.prediction ELSE p.result
    IN  IF MapThrows(p.symptoms)
        THEN [view EXCEPT !.hidden = FALSE]
        ELSE IF displayRawThrows(p)
        THEN [view EXCEPT !.hidden = FALSE, !.main = label]
        ELSE [hidden |-> FALSE, main |-> label,
              suggestions |-> IF p.suggestions THEN "suggestions"
                              ELSE IF p.recommendations.shape = "list"
                                      /\ Len(p.recommendations.items) > 0
                              THEN "recommendations" ELSE "none"]

----------------------------------------------------------------------------
(* The service worker *)

\* urlsToCache, abbreviated to the page, its alias and one script
urlsToCache == {"/", "/index.html", "/scripts/app.js"}

\* the requests the page makes: navigations (the notification click opens
\* /?tab=tips), a script, an image that is not precached, and the two API calls
Requests ==
    {[url |-> "/", destination |-> "document", method |-> "GET"],
     [url |-> "/index.html", destination |-> "document", method |-> "GET"],
     [url |-> "/?tab=tips", destination |-> "document", method |-> "GET"],
     [url |-> "/scripts/app.js", destination |-> "script", method |-> "GET"],
     [url |-> "/images/crop.jpg", destination |-> "image", method |-> "GET"],
     [url |-> "/api/health", destination |-> "", method |-> "GET"],
     [url |-> "/api/predict", destination |-> "", method |-> "POST"]}

IsApi(url) == url \in {"/api/health", "/api/predict"}     \* url.includes('/api/')

\* caches.match(request): an entry for the same URL, for GET requests only
Matches(stored, req) == req.method = "GET" /\ req.url \in stored

NoFetch ==
    [url |-> "none", destination |-> "none", network |-> "none", response |-> "none"]

\* what the catch branch of the fetch handler resolves to when fetch rejected
OfflineAnswer(stored, req) ==
    IF req.destination = "document"
    THEN (IF "/index.html" \in stored THEN "index" ELSE "undefined")
    ELSE IF IsApi(req.url) THEN "offlineJson"
    ELSE "offline503"

----------------------------------------------------------------------------
(* The page: tabs, preferences and the weather cache *)

\* the data-tab attributes of the navigation buttons
Tabs == {"dashboard", "weather", "crops", "tips"}

\* the preferences init() writes when none are stored
DefaultPreferences ==
    [kind |-> "object",
     fields |-> [language |-> "en", location |-> "Nairobi, Kenya", notifications |-> "true"]]

\* nothing stored under juaai_user_preferences
NoPreferences ==
    [kind |-> "none",
     fields |-> [language |-> "absent", location |-> "absent", notifications |-> "absent"]]

\* the locations typed into the weather form, and the dashboard's own
Locations == {"Nairobi, Kenya", "Kisumu"}
Conditions == {"sunny", "rainy"}
NoData == [location |-> "none", condition |-> "none", made |-> 0]
NoWeather == [data |-> NoData, timestamp |-> 0]

\* getMockWeatherData: the condition is drawn at random, the forecast dates
\* are counted from Date.now()
getMockWeatherData(location, condition, t) ==
    [location |-> location, condition |-> condition, made |-> t]

cacheTimeout == 10 * TicksPerMinute

\* a cache that still serves an entry at the very end of its lifetime
weatherCachedInclusive(stored, location, t) ==
    IF stored[location] # NoWeather /\ t - stored[location].timestamp <= cacheTimeout
    THEN stored[location].data
    ELSE NoData

\* WeatherManager.getCachedData: the entry's data while it is younger than
\* cacheTimeout, else null
weatherCached(stored, location, t) ==
    IF stored[location] # NoWeather /\ t - stored[location].timestamp < cacheTimeout
    THEN stored[location].data
    ELSE NoData

\* WeatherManager.setCachedData
weatherStored(stored, location, data, t) ==
    [stored EXCEPT ![location] = [data |-> data, timestamp |-> t]]

\* getDiseases as seen in the stored cache: valid cached diseases are
\* returned as they are, otherwise the built-in list is stored for an hour
withDiseases(stored, t, refused) ==
    IF refused \/ (stored["diseases"] # NoEntry /\ ~Expired(stored["diseases"], t))
    THEN stored
    ELSE [stored EXCEPT !["diseases"] = CacheEntry("diseases", t, 60)]

\* getLocalTips('en') as seen in the stored cache: valid cached tips are
\* returned as they are, otherwise the built-in tips are stored for an hour
withLocalTips(stored, t, refused) ==
    IF refused \/ (stored["tips_en"] # NoEntry /\ ~Expired(stored["tips_en"], t))
    THEN stored
    ELSE [stored EXCEPT !["tips_en"] = CacheEntry("tips", t, 60)]

----------------------------------------------------------------------------
(* analyzeImage *)

NoAnswer == [kind |-> "none", body |-> EmptyPayload]
Failures ==
    {[kind |-> k, body |-> EmptyPayload] : k \in {"reject", "notOk", "badJson"}}
Answers == Failures \cup {[kind |-> "body", body |-> p] : p \in Payloads}

\* whether the browser accepts the next storage write
WriteOutcomes == IF quotaLeft > 0 THEN BOOLEAN ELSE {TRUE}

\* one saveAnalysisResult call by invocation i, for a record built from the
\* remote answer or by the local simulation
Persist(i, r, from, writeOk) ==
    LET kept == JsonRecord(withTimestamp(r, now))
    IN  /\ history' = saveAnalysisResult(history, r, now, writeOk)
        /\ calls' = calls + 1
        /\ quotaLeft' = IF writeOk THEN quotaLeft ELSE quotaLeft - 1
        /\ appended' = IF writeOk THEN <<kept>> \o appended ELSE appended
        /\ produced' = IF writeOk
                       THEN [produced EXCEPT ![i] = Append(@, [record |-> kept, from |-> from,
                                                               given |-> withTimestamp(r, now)])]
                       ELSE produced

NoPersist == UNCHANGED <<history, calls, quotaLeft, appended, produced>>

\* saveAnalysisResult calls history.unshift on whatever getAnalysisHistory
\* returned; on a stored JSON object that is a TypeError in the caller
SaveThrows == historyKind # "array"

Log(i, names) == events' = [events EXCEPT ![i] = @ \o names]

\* the click handler calls cropAI.analyzeImage(file): showLoading(true), then
\* the first fetch is awaited
Start(i) ==
    /\ pc[i] = "idle"
    /\ \A j \in DOMAIN pc : j < i => pc[j] # "idle"
    /\ loadingHidden' = FALSE
    /\ pc' = [pc EXCEPT ![i] = IF variant = "p5" THEN "health" ELSE "predict"]
    /\ Log(i, IF variant = "p5" THEN <<>> ELSE <<"predict">>)
    /\ UNCHANGED <<storeVars, swVars, uiVars, variant, now, diseases, resultView, notice, remote>>
    /\ NoPersist

\* second build: the /api/health fetch settles
HealthSettles(i) ==
    /\ pc[i] = "health"
    /\ \E ok \in BOOLEAN :
        IF ok
        THEN /\ pc' = [pc EXCEPT ![i] = "predict"]
             /\ Log(i, <<"predict">>)
             /\ UNCHANGED remote
        ELSE /\ pc' = [pc EXCEPT ![i] = "delay"]
             /\ Log(i, <<"resolved">>)
             /\ remote' = [remote EXCEPT ![i] = [kind |-> "health", body |-> EmptyPayload]]
    /\ UNCHANGED <<storeVars, swVars, uiVars, variant, now, diseases, loadingHidden, resultView, notice>>
    /\ NoPersist

\* the endpoint accepts the request and never answers: the pending fetch has
\* no timeout and no abort signal, so nothing wakes the invocation again
EndpointSilent(i) ==
    /\ pc[i] \in {"health", "predict"}
    /\ pc' = [pc EXCEPT ![i] = "waiting"]
    /\ remote' = [remote EXCEPT ![i] = [kind |-> "silent", body |-> EmptyPayload]]
    /\ UNCHANGED <<storeVars, swVars, uiVars, variant, now, diseases, loadingHidden, resultView,
                   notice, events>>
    /\ NoPersist

\* first build, lines 59-115: the prediction fetch settles with answer a.
\* fallbackAnalysis is awaited inside the try block when the answer is not a
\* success ("delay"), and called again from the catch block when anything
\* in the try block threw ("delayCatch")
PredictSettles4(i, a, writeOk) ==
    LET p == a.body
        r == processBackendResult(p, now)
    IN  IF a.kind = "body" /\ p.status = "success"
        THEN IF processThrows(p) \/ SaveThrows
             THEN /\ pc' = [pc EXCEPT ![i] = "delayCatch"]
                  /\ NoPersist
                  /\ UNCHANGED <<resultView, notice, loadingHidden>>
             ELSE /\ Persist(i, r, "remote", writeOk)
                  /\ resultView' = showRecord(resultView, r)
                  /\ IF displayThrows(r)
                     THEN /\ pc' = [pc EXCEPT ![i] = "delayCatch"]
                          /\ UNCHANGED <<notice, loadingHidden>>
                     ELSE /\ pc' = [pc EXCEPT ![i] = "done"]
                          /\ notice' = "Crop analysis completed!"
                          /\ loadingHidden' = TRUE
        ELSE /\ pc' = [pc EXCEPT ![i] = "delay"]
             /\ NoPersist
             /\ UNCHANGED <<resultView, notice, loadingHidden>>

\* second build, lines 19-80
PredictSettles5(i, a, writeOk) ==
    LET p == a.body
    IN  IF a.kind = "body" /\ p.status # "error"
        THEN /\ resultView' = showRaw(resultView, p)
             /\ pc' = [pc EXCEPT ![i] = "done"]
             /\ loadingHidden' = TRUE
             /\ IF displayRawThrows(p) \/ SaveThrows
                THEN /\ NoPersist
                     /\ notice' = "Error analyzing image. Please try again."
                ELSE /\ Persist(i, convertBackendResult(p, now), "remote", writeOk)
                     /\ notice' = "Crop analysis completed using AI model!"
        ELSE /\ pc' = [pc EXCEPT ![i] = "delay"]
             /\ NoPersist
             /\ UNCHANGED <<resultView, notice, loadingHidden>>

\* third build, lines 19-79
PredictSettles6(i, a, writeOk) ==
    LET r == stampBackendResult(a.body, now)
    IN  IF a.kind = "body" /\ ~SaveThrows
        THEN /\ Persist(i, r, "remote", writeOk)
             /\ resultView' = showRecord(resultView, r)
             /\ IF displayThrows(r)
                THEN /\ pc' = [pc EXCEPT ![i] = "delay"]
                     /\ notice' = "Backend unavailable. Using local analysis..."
                     /\ UNCHANGED loadingHidden
                ELSE /\ pc' = [pc EXCEPT ![i] = "done"]
                     /\ notice' = "Crop analysis completed!"
                     /\ loadingHidden' = TRUE
        ELSE /\ pc' = [pc EXCEPT ![i] = "delay"]
             /\ notice' = "Backend unavailable. Using local analysis..."
             /\ NoPersist
             /\ UNCHANGED <<resultView, loadingHidden>>

PredictSettles(i) ==
    /\ pc[i] = "predict"
    /\ \E a \in Answers, writeOk \in WriteOutcomes :
        /\ remote' = [remote EXCEPT ![i] = a]
        /\ CASE variant = "p4" -> PredictSettles4(i, a, writeOk)
             [] variant = "p5" -> PredictSettles5(i, a, writeOk)
             [] variant = "p6" -> PredictSettles6(i, a, writeOk)
    /\ Log(i, <<"resolved">>)
    /\ UNCHANGED <<storeVars, swVars, uiVars, variant, now, diseases>>

LocalNotice ==
    CASE variant = "p4" -> "Crop analysis completed (using local processing)!"
      [] variant = "p5" -> "Crop analysis completed using local simulation!"
      [] variant = "p6" -> "Local crop analysis completed!"

\* the simulated processing delay elapses: fallbackAnalysis /
\* analyzeWithLocalSimulation / analyzeImageLocally run to their end, then
\* the finally block of analyzeImage hides the overlay. When the save throws,
\* the first build's try block hands over to its catch block, which starts
\* fallbackAnalysis once more
DelayElapses(i) ==
    /\ pc[i] \in {"delay", "delayCatch"}
    /\ Log(i, <<"simulate">>)
    /\ IF SaveThrows
       THEN /\ NoPersist
            /\ UNCHANGED resultView
            /\ IF variant = "p4" /\ pc[i] = "delay"
               THEN /\ pc' = [pc EXCEPT ![i] = "delayCatch"]
                    /\ UNCHANGED <<notice, loadingHidden>>
               ELSE /\ pc' = [pc EXCEPT ![i] = "done"]
                    /\ loadingHidden' = TRUE
                    /\ notice' = IF variant = "p4" THEN notice
                                 ELSE "Error analyzing image. Please try again."
       ELSE /\ \E rHealthy \in Draws, rIndex \in Draws, rConf \in Draws,
                  writeOk \in WriteOutcomes :
                LET sim == simulateAnalysis(variant, diseases, now, rHealthy, rIndex, rConf)
                    r == IF variant = "p6" THEN markLocal(sim) ELSE sim
                IN  /\ Persist(i, r, "local", writeOk)
                    /\ resultView' = showRecord(resultView, r)
                    /\ notice' = IF displayThrows(r)
                                 THEN (IF variant = "p6"
                                       THEN "Error analyzing image. Please try again."
                                       ELSE notice)
                                 ELSE LocalNotice
            /\ pc' = [pc EXCEPT ![i] = "done"]
            /\ loadingHidden' = TRUE
    /\ UNCHANGED <<storeVars, swVars, uiVars, variant, now, diseases, remote>>

\* time passes
Tick ==
    /\ now <= MaxNow
    /\ now' = now + 1
    /\ UNCHANGED <<storeVars, swVars, uiVars, variant, history, diseases, pc, loadingHidden, resultView,
                   notice, quotaLeft, remote, produced, events, calls, appended>>

\* the state after the scripts have loaded, for the invocations in S
InitFor(S) ==
    /\ variant \in Variants
    /\ history = <<>>
    /\ now = 1
    /\ diseases = DiseaseDatabase
    /\ pc = [i \in S |-> "idle"]
    /\ loadingHidden = TRUE
    /\ resultView = [hidden |-> TRUE, main |-> "", suggestions |-> ""]
    /\ notice = ""
    /\ quotaLeft = MaxQuotaFaults
    /\ remote = [i \in S |-> NoAnswer]
    /\ produced = [i \in S |-> <<>>]
    /\ events = [i \in S |-> <<>>]
    /\ calls = 0
    /\ appended = <<>>
    /\ historyKind \in {"array", "object"}
    /\ cache = [k \in CacheKeys |-> NoEntry]
    /\ denied = FALSE
    /\ last = NoCall
    /\ swState = "installing"
    /\ swCache = {}
    /\ online = TRUE
    /\ answered = NoFetch
    /\ currentTab = "dashboard"
    /\ prefs = DefaultPreferences
    /\ weatherCache = [l \in Locations |-> NoWeather]
    /\ weatherShown = [detail |-> NoData, dashboard |-> NoData]

Init == InitFor(Invs)

Next ==
    \/ \E i \in Invs : Start(i)
    \/ \E i \in Invs : HealthSettles(i)
    \/ \E i \in Invs : PredictSettles(i)
    \/ \E i \in Invs : EndpointSilent(i)
    \/ \E i \in Invs : DelayElapses(i)
    \/ Tick

Spec == Init /\ [][Next]_vars

\* every pending promise that settles is handled and every timer fires; the
\* user and the endpoint owe nothing
FairSpec ==
    /\ Spec
    /\ \A i \in Invs : WF_vars(HealthSettles(i))
    /\ \A i \in Invs : WF_vars(PredictSettles(i))
    /\ \A i \in Invs : WF_vars(DelayElapses(i))

----------------------------------------------------------------------------
(* Two clicks on the analyze button: the second analyzeImage starts while the
   first is still awaiting its fetch or its delay *)

MaxOverlap == 2     \* analyzeImage invocations in the overlap specification

Overlapping == 1..MaxOverlap

\* the answers of a working or an unreachable endpoint
UsualAnswer(a) ==
    \/ a.kind = "reject"
    \/ a.kind = "body" /\ a.body \in {SuccessDiseased, ReadmePredict, ReadmeClassify}

InitOverlap == InitFor(Overlapping) /\ historyKind = "array"

NextOverlap ==
    \/ \E i \in Overlapping : Start(i)
    \/ \E i \in Overlapping : HealthSettles(i)
    \/ \E i \in Overlapping : PredictSettles(i) /\ UsualAnswer(remote'[i])
    \/ \E i \in Overlapping : DelayElapses(i)

SpecOverlap == InitOverlap /\ [][NextOverlap]_vars

\* the same two invocations with the clock running: their results may
\* arrive in the same millisecond or in different ones
NextIds ==
    \/ NextOverlap
    \/ Tick

SpecIds == InitOverlap /\ [][NextIds]_vars

----------------------------------------------------------------------------
(* The history store on its own: successive saveAnalysisResult calls *)

\* the k-th call passes a healthy simulation result with id k
SaveCall ==
    /\ calls < MaxCalls
    /\ \E writeOk \in WriteOutcomes :
        LET r == [getHealthyResult(variant, now, 0) EXCEPT !.id = calls + 1]
        IN  /\ history' = saveAnalysisResult(history, r, now, writeOk)
            /\ appended' = IF writeOk
                           THEN <<JsonRecord(withTimestamp(r, now))>> \o appended
                           ELSE appended
            /\ quotaLeft' = IF writeOk THEN quotaLeft ELSE quotaLeft - 1
    /\ calls' = calls + 1
    /\ UNCHANGED <<storeVars, swVars, uiVars, variant, now, diseases, pc, loadingHidden, resultView,
                   notice, remote, produced, events>>

InitCap == Init /\ variant = "p4" /\ historyKind = "array"

NextCap == SaveCall

SpecCap == InitCap /\ [][NextCap]_vars

----------------------------------------------------------------------------
(* StorageManager called directly: the history methods *)

MaxSaves == 2       \* saveAnalysisResult calls in the storage specifications

appVars == <<variant, diseases, pc, loadingHidden, resultView, notice, remote,
             produced, events>>

Call(op, arg) == [NoCall EXCEPT !.op = op, !.arg = arg]

\* the records callers pass: a healthy and a diseased simulation result,
\* numbered by the call that saves them
CallerRecords ==
    {[getHealthyResult("p4", now, 0) EXCEPT !.id = calls + 1],
     [getDiseaseResult("p4", DiseaseDatabase[1], now, 0) EXCEPT !.id = calls + 1]}

\* history.unshift / slice / filter / forEach exist only on an array
NotAnArray == ~denied /\ historyKind # "array"

\* the write reaches localStorage: a refused access makes setItem return false
Written == ~denied

CallSave ==
    /\ calls < MaxSaves
    /\ calls' = calls + 1
    /\ \E r \in CallerRecords :
        IF NotAnArray
        THEN /\ last' = [Call("saveAnalysisResult", r.id) EXCEPT !.threw = TRUE]
             /\ UNCHANGED <<history, appended>>
        ELSE /\ history' = setItem(history,
                               unshiftCapped(getAnalysisHistory(historyKind, history, denied).items,
                                             withTimestamp(r, now)),
                               Written)
             /\ appended' = IF Written
                            THEN <<JsonRecord(withTimestamp(r, now))>> \o appended
                            ELSE appended
             /\ last' = [Call("saveAnalysisResult", r.id) EXCEPT
                            !.ok = Written, !.fault = ~Written]
    /\ UNCHANGED <<now, quotaLeft, historyKind, cache, denied, appVars, swVars, uiVars>>

CallDelete ==
    /\ \E id \in 1..(MaxSaves + 1) :
        IF NotAnArray
        THEN /\ last' = [Call("deleteAnalysisItem", id) EXCEPT !.threw = TRUE]
             /\ UNCHANGED history
        ELSE /\ history' = setItem(history,
                               WithoutId(getAnalysisHistory(historyKind, history, denied).items, id),
                               Written)
             /\ last' = [Call("deleteAnalysisItem", id) EXCEPT
                            !.ok = Written, !.fault = ~Written]
    /\ UNCHANGED <<now, quotaLeft, calls, appended, historyKind, cache, denied, appVars, swVars, uiVars>>

\* a reset that empties every key of the application, not only the history
ClearEverything ==
    /\ history' = setItem(history, <<>>, Written)
    /\ historyKind' = IF Written THEN "array" ELSE historyKind
    /\ cache' = IF Written THEN [k \in CacheKeys |-> NoEntry] ELSE cache
    /\ last' = [Call("clearAnalysisHistory", 0) EXCEPT
                   !.ok = Written, !.fault = ~Written]
    /\ UNCHANGED <<now, quotaLeft, calls, appended, denied, appVars, swVars, uiVars>>

CallClear ==
    /\ history' = setItem(history, <<>>, Written)
    /\ historyKind' = IF Written THEN "array" ELSE historyKind
    /\ last' = [Call("clearAnalysisHistory", 0) EXCEPT
                   !.ok = Written, !.fault = ~Written]
    /\ UNCHANGED <<now, quotaLeft, calls, appended, cache, denied, appVars, swVars, uiVars>>

Day == 24 * 60 * TicksPerMinute

CallCleanup ==
    /\ \E daysToKeep \in {0, 30} :
        IF NotAnArray
        THEN /\ last' = [Call("cleanupOldData", daysToKeep) EXCEPT !.threw = TRUE]
             /\ UNCHANGED history
        ELSE /\ history' = setItem(history,
                               NewerThan(getAnalysisHistory(historyKind, history, denied).items,
                                         now - daysToKeep * Day),
                               Written)
             /\ last' = [Call("cleanupOldData", daysToKeep) EXCEPT
                            !.ok = Written, !.fault = ~Written]
    /\ UNCHANGED <<now, quotaLeft, calls, appended, historyKind, cache, denied, appVars, swVars, uiVars>>

\* the files handed to importData: unparseable text, an object without the
\* two fields, and objects whose analysisHistory is an empty array, one record
\* more than the cap, or a JSON object instead of an array
ImportedRecord(k) == [getHealthyResult("p4", 1, 0) EXCEPT !.id = 100 + k]
Oversized == [k \in 1..(maxHistoryItems + 1) |-> ImportedRecord(k)]
ImportFiles == {"garbage", "noFields", "emptyArray", "oversized", "object"}

\* importData: the parsed analysisHistory is written as it is; an empty
\* array is truthy; the outcome of setItem is not looked at
CallImport ==
    /\ \E file \in ImportFiles :
        /\ last' = [Call("importData", 0) EXCEPT
                       !.data = file, !.ok = (file # "garbage"),
                       !.fault = (file \notin {"garbage", "noFields"} /\ ~Written)]
        /\ IF file \in {"garbage", "noFields"} \/ ~Written
           THEN UNCHANGED <<history, historyKind>>
           ELSE /\ history' = CASE file = "emptyArray" -> <<>>
                                [] file = "oversized" -> Oversized
                                [] file = "object" -> <<>>
                /\ historyKind' = IF file = "object" THEN "object" ELSE "array"
    /\ UNCHANGED <<now, quotaLeft, calls, appended, cache, denied, appVars, swVars, uiVars>>

CallRecentScans ==
    /\ \E limit \in 0..2 :
        IF NotAnArray
        THEN last' = [Call("getRecentScans", limit) EXCEPT !.threw = TRUE]
        ELSE last' = [Call("getRecentScans", limit) EXCEPT
                         !.fault = denied,
                         !.scans = getRecentScans(
                                       getAnalysisHistory(historyKind, history, denied).items,
                                       limit)]
    /\ UNCHANGED <<history, now, calls, appended, quotaLeft, historyKind, cache,
                   denied, appVars, swVars, uiVars>>

CallStatistics ==
    /\ IF NotAnArray
       THEN last' = [Call("getAnalysisStatistics", 0) EXCEPT !.threw = TRUE]
       ELSE last' = [Call("getAnalysisStatistics", 0) EXCEPT
                        !.fault = denied,
                        !.stats = getAnalysisStatistics(
                                      getAnalysisHistory(historyKind, history, denied).items)]
    /\ UNCHANGED <<history, now, calls, appended, quotaLeft, historyKind, cache,
                   denied, appVars, swVars, uiVars>>

\* getStorageUsage walks localStorage outside any try block
CallStorageUsage ==
    /\ last' = [Call("getStorageUsage", 0) EXCEPT !.fault = denied, !.threw = denied]
    /\ UNCHANGED <<history, now, calls, appended, quotaLeft, historyKind, cache,
                   denied, appVars, swVars, uiVars>>

\* exportData reads through getItem and serialises what it got
CallExport ==
    /\ last' = [Call("exportData", 0) EXCEPT !.fault = denied]
    /\ UNCHANGED <<history, now, calls, appended, quotaLeft, historyKind, cache,
                   denied, appVars, swVars, uiVars>>

\* the user blocks or allows site data in the browser settings
AccessChanges ==
    /\ denied' = ~denied
    /\ UNCHANGED <<history, now, calls, appended, quotaLeft, historyKind, cache,
                   last, appVars, swVars, uiVars>>

InitStore == Init /\ variant = "p4" /\ historyKind = "array"

NextHistory ==
    \/ CallSave
    \/ CallDelete
    \/ CallClear
    \/ CallCleanup
    \/ CallImport
    \/ CallRecentScans
    \/ CallStatistics
    \/ CallStorageUsage
    \/ CallExport
    \/ AccessChanges

SpecHistory == InitStore /\ [][NextHistory]_vars

\* appends, removals and listings only, with storage access granted
NextScans ==
    \/ CallSave
    \/ CallDelete
    \/ CallRecentScans

SpecScans == InitStore /\ [][NextScans]_vars

----------------------------------------------------------------------------
(* StorageManager called directly: the cache *)

MaxClock == 4       \* clock ticks in the cache specification

CacheData == {"a", "b"}
Lifetimes == {0, 1}             \* expireInMinutes

CallSetCached ==
    /\ \E key \in CacheKeys, data \in CacheData, expireInMinutes \in Lifetimes :
        /\ cache' = [cache EXCEPT ![key] = CacheEntry(data, now, expireInMinutes)]
        /\ last' = [Call("setCachedData", expireInMinutes) EXCEPT
                       !.key = key, !.data = data]
    /\ UNCHANGED <<history, now, quotaLeft, calls, appended, historyKind, denied,
                   appVars, swVars, uiVars>>

\* getCachedData: a missing entry gives null; an expired one is deleted from
\* the stored cache and gives null; otherwise the data
CallGetCached ==
    /\ \E key \in CacheKeys :
        IF cache[key] = NoEntry
        THEN /\ last' = [Call("getCachedData", 0) EXCEPT !.key = key]
             /\ UNCHANGED cache
        ELSE IF Expired(cache[key], now)
        THEN /\ last' = [Call("getCachedData", 0) EXCEPT !.key = key, !.evicted = TRUE]
             /\ cache' = [cache EXCEPT ![key] = NoEntry]
        ELSE /\ last' = [Call("getCachedData", 0) EXCEPT
                            !.key = key, !.data = cache[key].data]
             /\ UNCHANGED cache
    /\ UNCHANGED <<history, now, quotaLeft, calls, appended, historyKind, denied,
                   appVars, swVars, uiVars>>

Wait ==
    /\ now <= MaxClock
    /\ now' = now + 1
    /\ UNCHANGED <<history, quotaLeft, calls, appended, storeVars, appVars, swVars, uiVars>>

NextCache ==
    \/ CallSetCached
    \/ CallGetCached
    \/ Wait

SpecCache == InitStore /\ [][NextCache]_vars

----------------------------------------------------------------------------
(* The service worker's events *)

pageVars == <<history, now, quotaLeft, calls, appended, storeVars, appVars, uiVars>>

\* install: cache.addAll stores every URL or, when one of them cannot be
\* fetched, none; the rejection is caught, so the worker activates either way
SwInstall ==
    /\ swState = "installing"
    /\ swState' = "active"
    /\ \E allFetched \in BOOLEAN :
        swCache' = IF allFetched /\ online THEN swCache \cup urlsToCache ELSE swCache
    /\ UNCHANGED <<online, answered, pageVars>>

\* fetch: the cache first, then the network (a 200 answer to a same-origin
\* GET is put in the cache), then the offline answers
SwFetch ==
    /\ swState = "active"
    /\ \E req \in Requests, found \in BOOLEAN :
        LET event == [url |-> req.url, destination |-> req.destination,
                      network |-> IF online THEN "up" ELSE "down"]
        IN  IF Matches(swCache, req)
            THEN /\ answered' = event @@ [response |-> "cached"]
                 /\ UNCHANGED swCache
            ELSE IF online
            THEN /\ answered' = event @@ [response |-> IF found THEN "network200"
                                                       ELSE "network404"]
                 /\ swCache' = IF found /\ req.method = "GET"
                               THEN swCache \cup {req.url} ELSE swCache
            ELSE /\ answered' = event @@ [response |-> OfflineAnswer(swCache, req)]
                 /\ UNCHANGED swCache
    /\ UNCHANGED <<swState, online, pageVars>>

\* the connection drops or comes back
NetworkChanges ==
    /\ online' = ~online
    /\ UNCHANGED <<swState, swCache, answered, pageVars>>

NextWorker ==
    \/ SwInstall
    \/ SwFetch
    \/ NetworkChanges

SpecWorker == InitStore /\ [][NextWorker]_vars

----------------------------------------------------------------------------
(* The page's own handlers, next to a running analyzeImage *)

\* getCurrentWeather(location, isDashboard): cached data or fresh mock data,
\* rendered into the dashboard card or the weather tab
getCurrentWeather(location, isDashboard, condition) ==
    LET cached == weatherCached(weatherCache, location, now)
        data == IF cached # NoData THEN cached
                ELSE getMockWeatherData(location, condition, now)
    IN  /\ weatherCache' = IF cached # NoData THEN weatherCache
                           ELSE weatherStored(weatherCache, location, data, now)
        /\ weatherShown' = IF isDashboard
                           THEN [weatherShown EXCEPT !.dashboard = data]
                           ELSE [weatherShown EXCEPT !.detail = data]

\* a navigation button is activated (the overlay covers the pointer only;
\* the buttons stay reachable from the keyboard): the tab becomes current
\* and loadTabData runs. loadDashboard stops at getRecentScans when the
\* stored history is not an array; loadTips shows the overlay, awaits
\* getLocalTips and hides the overlay in its finally block
SwitchTab(tabId) ==
    /\ currentTab' = tabId
    /\ CASE tabId = "dashboard" ->
              /\ \E condition \in Conditions :
                    getCurrentWeather("Nairobi, Kenya", TRUE, condition)
              /\ cache' = IF NotAnArray THEN cache ELSE withLocalTips(cache, now, denied)
              /\ UNCHANGED loadingHidden
         [] tabId = "tips" ->
              /\ cache' = withLocalTips(cache, now, denied)
              /\ loadingHidden' = TRUE
              /\ UNCHANGED <<weatherCache, weatherShown>>
         [] OTHER -> UNCHANGED <<cache, loadingHidden, weatherCache, weatherShown>>
    /\ UNCHANGED <<variant, history, now, diseases, pc, resultView, notice, quotaLeft,
                   remote, produced, events, calls, appended, historyKind, denied, last,
                   swVars, prefs>>

\* the invocations of the pipeline, started from the crop tab
StartOnTab(i) == currentTab = "crops" /\ Start(i)

NextTabs ==
    \/ \E tabId \in Tabs : SwitchTab(tabId)
    \/ \E i \in Invs : StartOnTab(i)
    \/ \E i \in Invs : HealthSettles(i)
    \/ \E i \in Invs : PredictSettles(i)
    \/ \E i \in Invs : DelayElapses(i)

SpecTabs == Init /\ [][NextTabs]_vars

\* the weather button's click handler: getWeather(location) shows the
\* overlay, renders cached or fresh data and hides the overlay, all in one
\* task because nothing in it is awaited
GetWeather(location) ==
    /\ \E condition \in Conditions :
        LET cached == weatherCached(weatherCache, location, now)
            data == getMockWeatherData(location, condition, now)
        IN  IF cached # NoData
            THEN /\ weatherShown' = [weatherShown EXCEPT !.detail = cached]
                 /\ UNCHANGED <<weatherCache, notice>>
            ELSE /\ weatherCache' = weatherStored(weatherCache, location, data, now)
                 /\ weatherShown' = [weatherShown EXCEPT !.detail = data]
                 /\ notice' = "Weather data updated successfully!"
    /\ loadingHidden' = TRUE
    /\ UNCHANGED <<variant, history, now, diseases, pc, resultView, quotaLeft,
                   remote, produced, events, calls, appended, storeVars, swVars,
                   currentTab, prefs>>

\* loadTips('en'), as init() and the language selector call it: the overlay
\* is shown, getLocalTips is awaited and the finally block hides the overlay
LoadTips ==
    /\ cache' = withLocalTips(cache, now, denied)
    /\ loadingHidden' = TRUE
    /\ UNCHANGED <<variant, history, now, diseases, pc, resultView, notice, quotaLeft,
                   remote, produced, events, calls, appended, historyKind, denied, last,
                   swVars, uiVars>>

\* two analyses, tip loads and weather requests in any order; one location
\* is enough here, the overlay does not depend on it
NextLoading ==
    \/ GetWeather("Kisumu")
    \/ LoadTips
    \/ \E i \in Overlapping : Start(i)
    \/ \E i \in Overlapping : HealthSettles(i)
    \/ \E i \in Overlapping : PredictSettles(i) /\ UsualAnswer(remote'[i])
    \/ \E i \in Overlapping : DelayElapses(i)

SpecLoading == InitOverlap /\ [][NextLoading]_vars

----------------------------------------------------------------------------
(* WeatherManager on its own: requests for a location as time passes *)

MaxWeatherClock == 21       \* clock ticks in the weather specification

\* loadDashboard's call: getCurrentWeather('Nairobi, Kenya', true)
DashboardWeather ==
    /\ \E condition \in Conditions : getCurrentWeather("Nairobi, Kenya", TRUE, condition)
    /\ UNCHANGED <<variant, history, now, diseases, pc, loadingHidden, resultView, notice,
                   quotaLeft, remote, produced, events, calls, appended, storeVars, swVars,
                   currentTab, prefs>>

WeatherWait ==
    /\ now <= MaxWeatherClock
    /\ now' = now + 1
    /\ UNCHANGED <<history, quotaLeft, calls, appended, storeVars, appVars, swVars, uiVars>>

NextWeather ==
    \/ \E l \in Locations : GetWeather(l)
    \/ DashboardWeather
    \/ WeatherWait

SpecWeather == InitStore /\ [][NextWeather]_vars

----------------------------------------------------------------------------
(* StorageManager when one read fails: getItem's try block throws (the
   browser refuses that one access, or the stored text does not parse), its
   catch block returns null, and the write that follows goes through *)

\* saveAnalysisResult: getAnalysisHistory falls back to [] and the new
\* record is written as the whole history
SaveOnFault ==
    /\ calls < MaxSaves
    /\ calls' = calls + 1
    /\ \E r \in CallerRecords :
        /\ history' = setItem(history,
                               unshiftCapped(getAnalysisHistory(historyKind, history, TRUE).items,
                                             withTimestamp(r, now)),
                               Written)
        /\ appended' = <<JsonRecord(withTimestamp(r, now))>> \o appended
        /\ last' = [Call("saveAnalysisResult", r.id) EXCEPT !.fault = TRUE]
    /\ UNCHANGED <<now, quotaLeft, historyKind, cache, denied, appVars, swVars, uiVars>>

\* deleteAnalysisItem: [] filtered is [], which is written
DeleteOnFault ==
    /\ \E id \in 1..(MaxSaves + 1) :
        /\ history' = setItem(history,
                               WithoutId(getAnalysisHistory(historyKind, history, TRUE).items, id),
                               Written)
        /\ last' = [Call("deleteAnalysisItem", id) EXCEPT !.fault = TRUE]
    /\ UNCHANGED <<now, quotaLeft, calls, appended, historyKind, cache, denied, appVars,
                   swVars, uiVars>>

\* cleanupOldData: likewise
CleanupOnFault ==
    /\ \E daysToKeep \in {0, 30} :
        /\ history' = setItem(history,
                               NewerThan(getAnalysisHistory(historyKind, history, TRUE).items,
                                         now - daysToKeep * Day),
                               Written)
        /\ last' = [Call("cleanupOldData", daysToKeep) EXCEPT !.fault = TRUE]
    /\ UNCHANGED <<now, quotaLeft, calls, appended, historyKind, cache, denied, appVars,
                   swVars, uiVars>>

\* setCachedData: the cache object falls back to {} and is written with the
\* one new entry
SetCachedOnFault ==
    /\ \E key \in CacheKeys, data \in CacheData, expireInMinutes \in Lifetimes :
        /\ cache' = [[k \in CacheKeys |-> NoEntry] EXCEPT
                         ![key] = CacheEntry(data, now, expireInMinutes)]
        /\ last' = [Call("setCachedData", expireInMinutes) EXCEPT
                       !.key = key, !.data = data, !.fault = TRUE]
    /\ UNCHANGED <<history, now, quotaLeft, calls, appended, historyKind, denied,
                   appVars, swVars, uiVars>>

NextFaults ==
    \/ CallSave
    \/ CallSetCached
    \/ SaveOnFault
    \/ DeleteOnFault
    \/ CleanupOnFault
    \/ SetCachedOnFault

SpecFaults == InitStore /\ [][NextFaults]_vars

----------------------------------------------------------------------------
(* StorageManager called directly: statistics over several diagnoses *)

\* the records callers pass here: a healthy result and two diseases
Diagnoses ==
    {[getHealthyResult("p4", now, 0) EXCEPT !.id = calls + 1],
     [getDiseaseResult("p4", DiseaseDatabase[1], now, 0) EXCEPT !.id = calls + 1],
     [getDiseaseResult("p4", DiseaseDatabase[1 + 1], now, 0) EXCEPT !.id = calls + 1]}

MaxDiagnoses == 3   \* saveAnalysisResult calls in the statistics specification

SaveDiagnosis ==
    /\ calls < MaxDiagnoses
    /\ calls' = calls + 1
    /\ \E r \in Diagnoses :
        /\ history' = saveAnalysisResult(history, r, now, Written)
        /\ appended' = <<JsonRecord(withTimestamp(r, now))>> \o appended
        /\ last' = Call("saveAnalysisResult", r.id)
    /\ UNCHANGED <<now, quotaLeft, historyKind, cache, denied, appVars, swVars, uiVars>>

NextStatistics ==
    \/ SaveDiagnosis
    \/ CallDelete
    \/ CallStatistics

SpecStatistics == InitStore /\ [][NextStatistics]_vars

----------------------------------------------------------------------------
(* StorageManager called directly: the preferences *)

PrefKeys == {"language", "location", "notifications"}
PrefValues == {"sw", "false"}

\* getUserPreferences: getItem(...) || the default object
getUserPreferences(stored, refused) ==
    IF refused \/ stored.kind = "none" THEN DefaultPreferences ELSE stored

\* the page is loaded again: new StorageManager() runs init(), which writes
\* the defaults when getItem gives a falsy value
Construct ==
    /\ prefs' = IF (denied \/ prefs.kind = "none") /\ Written
                THEN DefaultPreferences ELSE prefs
    /\ last' = [Call("init", 0) EXCEPT !.fault = denied]
    /\ UNCHANGED <<history, now, quotaLeft, calls, appended, historyKind, cache, denied,
                   appVars, swVars, currentTab, weatherCache, weatherShown>>

\* setUserPreference(key, value): preferences[key] = value on what
\* getUserPreferences returned, then setItem; on a stored string the
\* assignment throws (class bodies are strict code)
CallSetPreference ==
    /\ \E key \in PrefKeys, value \in PrefValues :
        LET preferences == getUserPreferences(prefs, denied)
        IN  IF preferences.kind = "text"
            THEN /\ last' = [Call("setUserPreference", 0) EXCEPT
                                !.key = key, !.data = value, !.threw = TRUE, !.ok = FALSE]
                 /\ UNCHANGED prefs
            ELSE /\ prefs' = IF Written
                             THEN [preferences EXCEPT !.fields[key] = value]
                             ELSE prefs
                 /\ last' = [Call("setUserPreference", 0) EXCEPT
                                !.key = key, !.data = value, !.ok = Written,
                                !.fault = ~Written]
    /\ UNCHANGED <<history, now, quotaLeft, calls, appended, historyKind, cache, denied,
                   appVars, swVars, currentTab, weatherCache, weatherShown>>

\* the files handed to importData that carry no analysisHistory: one whose
\* userPreferences is an object with the language only, one whose
\* userPreferences is a string
ImportedPreferences ==
    [object |-> [kind |-> "object",
                 fields |-> [NoPreferences.fields EXCEPT !.language = "sw"]],
     text |-> [kind |-> "text", fields |-> NoPreferences.fields]]

ImportPreferences ==
    /\ \E file \in DOMAIN ImportedPreferences :
        /\ prefs' = IF Written THEN ImportedPreferences[file] ELSE prefs
        /\ last' = [Call("importData", 0) EXCEPT !.data = file, !.fault = ~Written]
    /\ UNCHANGED <<history, now, quotaLeft, calls, appended, historyKind, cache, denied,
                   appVars, swVars, currentTab, weatherCache, weatherShown>>

NextPreferences ==
    \/ Construct
    \/ CallSetPreference
    \/ ImportPreferences
    \/ AccessChanges

SpecPreferences == InitStore /\ [][NextPreferences]_vars

----------------------------------------------------------------------------
(* StorageManager called directly: the three stored keys side by side *)

CallClearCache ==
    /\ cache' = IF Written THEN [k \in CacheKeys |-> NoEntry] ELSE cache
    /\ last' = [Call("clearCache", 0) EXCEPT !.ok = Written, !.fault = ~Written]
    /\ UNCHANGED <<history, now, quotaLeft, calls, appended, historyKind, denied,
                   appVars, swVars, uiVars>>

CallGetDiseases ==
    /\ cache' = withDiseases(cache, now, denied)
    /\ last' = [Call("getDiseases", 0) EXCEPT !.key = "diseases", !.fault = denied]
    /\ UNCHANGED <<history, now, quotaLeft, calls, appended, historyKind, denied,
                   appVars, swVars, uiVars>>

CallGetLocalTips ==
    /\ cache' = withLocalTips(cache, now, denied)
    /\ last' = [Call("getLocalTips", 0) EXCEPT !.key = "tips_en", !.fault = denied]
    /\ UNCHANGED <<history, now, quotaLeft, calls, appended, historyKind, denied,
                   appVars, swVars, uiVars>>

HistoryOperation == CallSave \/ CallDelete \/ CallClear \/ CallCleanup
CacheOperation ==
    CallSetCached \/ CallGetCached \/ CallClearCache \/ CallGetDiseases \/ CallGetLocalTips

\* the clock moves once, so that a stored entry can be found expired
WaitOnce == now = 1 /\ Wait

\* the operations on the three keys in any order; one record, one cache
\* entry and one preference key are enough to fill the other keys
NextKeys ==
    \/ CallSave /\ appended'[1].status = "healthy"
    \/ CallDelete
    \/ CallClear
    \/ CallCleanup
    \/ CallSetCached /\ last'.key = "diseases" /\ last'.data = "a" /\ last'.arg = 0
    \/ CallGetCached
    \/ CallClearCache
    \/ CallGetDiseases
    \/ CallGetLocalTips
    \/ CallSetPreference /\ last'.key = "language"
    \/ WaitOnce

SpecKeys == InitStore /\ [][NextKeys]_vars

----------------------------------------------------------------------------
(* Properties *)

\* the provenance tags the three builds write
RemoteTagged(r) ==
    r.fromBackend = "true" \/ r.backend_used = "true" \/ r.source = "backend"
LocalTagged(r) == r.backend_used = "false" \/ r.source = "local"

\* the remote attempt of invocation i failed: a fetch rejected or a response was not ok
RemoteFailed(i) == remote[i].kind \in {"reject", "notOk", "health"}

\* the parsed body of invocation i has neither a prediction nor a status
Unrecognised(i) ==
    /\ remote[i].kind = "body"
    /\ remote[i].body.prediction = "absent"
    /\ remote[i].body.status = "absent"

InRange(c, lo, hi) == c.k = "num" /\ lo <= c.v /\ c.v <= hi

\* C1: every analyzeImage invocation that has returned persisted exactly one
\* record, whatever the remote outcome and whether or not processing,
\* display or the storage write failed.
C1_ExactlyOneRecord ==
    \A i \in Invs : pc[i] = "done" => Len(produced[i]) = 1

\* C2: when the remote call fails, the step that completes the invocation
\* persists its one and only record, that record is tagged as local, and the
\* stored history is one longer than before.
C2_RemoteFailureAddsOneLocal ==
    [][\A i \in Invs :
        (pc[i] # "done" /\ pc'[i] = "done" /\ RemoteFailed(i)) =>
            /\ Len(produced'[i]) = 1
            /\ Len(history') = Len(history) + 1
            /\ LocalTagged(history'[1])]_vars

\* C3: every invocation that has started eventually completes, also when the
\* remote endpoint never answers.
C3_EveryInvocationCompletes ==
    \A i \in Invs : (pc[i] # "idle") ~> (pc[i] = "done")

\* C4: a parsed body with neither prediction nor status is treated as a
\* failed remote attempt: no record is built from it, the record saved comes
\* from the local simulation.
C4_UnrecognisedBodyFallsBack ==
    \A i \in Invs : Unrecognised(i) =>
        \A k \in 1..Len(produced[i]) :
            /\ produced[i][k].from = "local"
            /\ ~RemoteTagged(produced[i][k].record)

\* C5: every stored record carries an explicit provenance tag, remote exactly
\* when it was built from the remote response, local otherwise.
C5_ExplicitProvenance ==
    /\ \A k \in 1..Len(history) :
          RemoteTagged(history[k]) # LocalTagged(history[k])
    /\ \A i \in Invs : \A k \in 1..Len(produced[i]) :
          RemoteTagged(produced[i][k].record) <=> produced[i][k].from = "remote"

\* C6: every stored record has a confidence that is a number within [0,100].
C6_ConfidenceWithinPercent ==
    \A k \in 1..Len(history) : InRange(history[k].confidence, 0, Percent)

\* C7: in every stored record severity is 'none' exactly when status is 'healthy'.
C7_SeverityNoneIffHealthy ==
    \A k \in 1..Len(history) :
        (history[k].severity = "none") <=> (history[k].status = "healthy")

\* C8: a record built from a remote body whose confidence c is a fraction in
\* [0,1] has confidence 100*c, and status 'healthy' when the prediction is
\* 'healthy' and 'disease_detected' otherwise.
C8_FractionBecomesPercent ==
    \A i \in Invs : \A k \in 1..Len(produced[i]) :
        LET p == remote[i].body
            e == produced[i][k]
        IN  (e.from = "remote" /\ InRange(p.confidence, 0, Scale)) =>
                /\ e.record.confidence = Num(100 * p.confidence.v)
                /\ e.record.status = IF p.prediction = "healthy"
                                     THEN "healthy" ELSE "disease_detected"

\* C9: every record of the local simulation has a confidence within [85,95]
\* when healthy and within [70,90] when a disease is detected.
C9_LocalConfidenceRanges ==
    \A i \in Invs : \A k \in 1..Len(produced[i]) :
        LET e == produced[i][k]
        IN  e.from = "local" =>
                /\ e.record.status \in {"healthy", "disease_detected"}
                /\ e.record.status = "healthy" =>
                       InRange(e.record.confidence, 85 * Scale, 95 * Scale)
                /\ e.record.status = "disease_detected" =>
                       InRange(e.record.confidence, 70 * Scale, 90 * Scale)

\* a simulated disease record drawn at the top of the random range is stored
C9_Witness ==
    \E i \in Invs : \E k \in 1..Len(produced[i]) :
        /\ produced[i][k].from = "local"
        /\ produced[i][k].record.status = "disease_detected"
        /\ produced[i][k].record.confidence.v > 89 * Scale

\* C10: once more than maxHistoryItems records have been appended to an
\* empty history, it holds exactly maxHistoryItems records, the most
\* recently appended ones, newest first; every append puts its record at
\* the head and keeps the order of the others, dropping only from the tail.
C10_KeepsNewestFifty ==
    /\ Len(history) <= Len(appended)
    /\ history = SubSeq(appended, 1, Len(history))
    /\ Len(appended) > maxHistoryItems => Len(history) = maxHistoryItems
    /\ Len(appended) <= maxHistoryItems => Len(history) = Len(appended)

\* more appends than the cap, and the oldest record is gone
C10_Witness ==
    /\ Len(appended) > maxHistoryItems
    /\ Len(history) = maxHistoryItems
    /\ history[1].id = appended[1].id
    /\ history[maxHistoryItems].id # appended[Len(appended)].id

\* C11: whatever sequence of history operations has run, the stored history
\* holds at most maxHistoryItems records.
C11_HistoryWithinCap == Len(history) <= maxHistoryItems

\* the records appended so far that are still stored, newest first
Surviving ==
    SelectSeq(appended, LAMBDA r : \E i \in 1..Len(history) : history[i].id = r.id)

Min(a, b) == IF a < b THEN a ELSE b

\* C12: after saves and deletes, getRecentScans(k) returns the min(k, length)
\* most recently appended surviving records, newest first, and leaves the
\* stored history as it was.
C12_RecentScansNewestFirst ==
    [][CallRecentScans =>
        LET n == Min(last'.arg, Len(history))
        IN  /\ ~last'.threw
            /\ history' = history
            /\ Len(last'.scans) = n
            /\ \A i \in 1..n : last'.scans[i] = ScanSummary(Surviving[i])
            /\ \A i, j \in 1..n : i < j => last'.scans[i].id > last'.scans[j].id]_vars

\* two records are stored and the newest one alone was asked for
C12_Witness ==
    /\ last.op = "getRecentScans"
    /\ last.arg = 1
    /\ Len(history) = 2
    /\ Len(last.scans) = 1
    /\ last.scans[1].id = appended[1].id

\* C13: deleteAnalysisItem(id) raises no error, a second application leaves
\* the history as the first left it, an id that is not stored changes
\* nothing, and the other records keep their order.
C13_DeleteIdempotent ==
    [][CallDelete =>
        /\ ~last'.threw
        /\ setItem(history',
                   WithoutId(getAnalysisHistory(historyKind', history', denied').items,
                             last'.arg),
                   ~denied') = history'
        /\ (\A i \in 1..Len(history) : history[i].id # last'.arg) => history' = history
        /\ \/ history' = history
           \/ history' = SelectSeq(history, LAMBDA r : r.id # last'.arg)]_vars

\* C15: a StorageManager call during which a storage access failed does not
\* throw into its caller.
C15_NoThrowOnStorageFailure == last.fault => ~last.threw

\* C16: getAnalysisStatistics on an empty history returns zero counts, a zero
\* average, no most common disease and no last analysis, and raises no error.
C16_EmptyStatistics ==
    (last.op = "getAnalysisStatistics" /\ historyKind = "array" /\ history = <<>>) =>
        /\ ~last.threw
        /\ last.stats.total = 0
        /\ last.stats.healthy = 0
        /\ last.stats.diseased = 0
        /\ last.stats.averageConfidence = Fraction(0, 1)
        /\ last.stats.mostCommonDisease = "null"
        /\ last.stats.lastAnalysis = Null

\* the statistics of a history that held records and was emptied again
C16_Witness ==
    /\ last.op = "getAnalysisStatistics"
    /\ ~denied
    /\ historyKind = "array"
    /\ history = <<>>
    /\ appended # <<>>
    /\ last.stats.total = 0

\* C14: getCachedData(key) at time t, with the entry set at t0 for T minutes
\* still in place (expiry = t0 + T minutes), returns the data if and only if
\* t < t0 + T minutes, and returns absent from t0 + T minutes on.
C14_CacheValidBeforeExpiry ==
    [][(CallGetCached /\ cache[last'.key] # NoEntry) =>
        LET entry == cache[last'.key]
        IN  /\ (last'.data = entry.data) <=> (now < entry.expiry)
            /\ (now >= entry.expiry) => (last'.data = "absent")]_vars

\* C17: every record analyzeImage saved reads back from the history, after
\* JSON.stringify and JSON.parse, equal field for field to the record that
\* was passed to saveAnalysisResult.
C17_RoundTripEqual ==
    \A i \in Invs : \A k \in 1..Len(produced[i]) :
        produced[i][k].record = produced[i][k].given

\* C18: a fetch event handled while the network is down gets a Response:
\* the cached entry when one matches, else the cached /index.html for a
\* document, the offline JSON body for an /api/ URL, a 503 for anything else.
C18_OfflineAlwaysAnswered ==
    answered.network = "down" =>
        /\ answered.response \in {"cached", "index", "offlineJson", "offline503"}
        /\ answered.response = "index" => answered.destination = "document"
        /\ answered.response = "offlineJson" => IsApi(answered.url)
        /\ answered.response = "offline503" =>
               (~IsApi(answered.url) /\ answered.destination # "document")

\* C19: within one invocation the prediction endpoint is fetched at most
\* once, the remote attempt resolves before any local simulation starts, and
\* at most one local simulation runs.
C19_RemoteThenOneLocal ==
    \A i \in Invs :
        events[i] \in {<<>>, <<"predict">>, <<"predict", "resolved">>,
                       <<"predict", "resolved", "simulate">>,
                       <<"resolved">>, <<"resolved", "simulate">>}

\* every append since the page loaded is still in the stored history, newest first
NoLostAppend == history = appended

\* C20: once two overlapping invocations have both finished, the record of
\* each of them is in the stored history: no append overwrote another.
C20_OverlapKeepsBothRecords ==
    (\A i \in DOMAIN pc : pc[i] = "done") =>
        /\ NoLostAppend
        /\ \A i \in DOMAIN pc : \E k \in 1..Len(history) :
               /\ produced[i] # <<>>
               /\ history[k] = produced[i][1].record

\* between showLoading(true) and the finally block of analyzeImage
InFlight(i) == pc[i] \notin {"idle", "done"}

\* C21: when the result of an invocation arrives (its fetch settles or its
\* simulated delay elapses) while another tab than the crop tab is current,
\* the result view is left as it was: not rewritten, not revealed. The
\* record is saved by the same step either way.

C21_AbandonedResultNotShown ==
    [][\A i \in DOMAIN pc :
          (currentTab # "crops" /\ InFlight(i) /\ pc'[i] # pc[i])
              => resultView' = resultView]_vars

\* C22: any two distinct records of the stored history have different ids,
\* whatever the interleaving of the invocations that saved them and also
\* when both were created in the same millisecond.
C22_DistinctIds ==
    \A a, b \in 1..Len(history) : a # b => history[a].id # history[b].id

\* the items of a suggestion group; an absent group has none
Items(l) == IF l.shape = "list" THEN l.items ELSE <<>>

\* the groups of the payload's suggestions object are lists or absent
WellFormedSuggestions(p) ==
    /\ p.suggestions
    /\ \A l \in {p.s_immediate, p.s_options, p.s_maintenance, p.s_prevention} :
           l.shape \in {"list", "absent"}

\* C26: a record saved from a remote result that carries a suggestions
\* object has as recommendations the immediate actions, then the treatment
\* options, then the maintenance tips, each in its own order, and has the
\* payload's prevention tips in its prevention field.
C26_SuggestionsFlattened ==
    \A i \in DOMAIN pc : \A k \in 1..Len(produced[i]) :
        LET e == produced[i][k]
            p == remote[i].body
        IN  (e.from = "remote" /\ remote[i].kind = "body" /\ WellFormedSuggestions(p)) =>
                /\ e.record.recommendations =
                       List(Items(p.s_immediate) \o Items(p.s_options) \o Items(p.s_maintenance))
                /\ e.record.prevention = p.s_prevention

\* C30: the loading overlay is visible while any analyzeImage invocation is
\* in flight, whatever else starts or finishes meanwhile, and it is hidden
\* once none is in flight.
C30_OverlayWhileInFlight ==
    loadingHidden <=> (\A i \in DOMAIN pc : ~InFlight(i))

\* what a weather request for location l must do with a stored entry: show
\* it unchanged while fewer than ten minutes have passed since it was
\* stored, otherwise generate data now, store it and show it
ServedFromCache(l, shown) ==
    LET entry == weatherCache[l]
    IN  IF now - entry.timestamp < 10 * TicksPerMinute
        THEN /\ shown = entry.data
             /\ weatherCache' = weatherCache
        ELSE /\ weatherCache'[l].timestamp = now
             /\ weatherCache'[l].data.made = now
             /\ weatherCache'[l].data # entry.data
             /\ shown = weatherCache'[l].data

\* C29: a weather request for a location that has a stored entry shows the
\* stored data if and only if fewer than ten minutes have passed since it
\* was stored; from ten minutes on it generates fresh data and stores it.
C29_WeatherCacheTenMinutes ==
    [][/\ \A l \in Locations :
              (GetWeather(l) /\ weatherCache[l] # NoWeather)
                  => ServedFromCache(l, weatherShown'.detail)
       /\ (DashboardWeather /\ weatherCache["Nairobi, Kenya"] # NoWeather)
              => ServedFromCache("Nairobi, Kenya", weatherShown'.dashboard)]_vars

\* the dashboard still shows the data of the first tick, and the weather tab
\* shows data generated exactly ten minutes later for the same location
C29_Witness ==
    /\ weatherShown.dashboard.made = 1
    /\ weatherCache["Nairobi, Kenya"].data.made = 1 + 10 * TicksPerMinute
    /\ weatherShown.detail = weatherCache["Nairobi, Kenya"].data

\* the records (cache entries) stored before the step are stored after it
RecordsKept == \A k \in 1..Len(history) : \E j \in 1..Len(history') : history'[j] = history[k]
EntriesKept == \A k \in CacheKeys : (cache[k] # NoEntry /\ k # last'.key) => cache'[k] = cache[k]

\* C23: when the read of the stored history fails inside saveAnalysisResult,
\* deleteAnalysisItem or cleanupOldData, the records stored before the call
\* are still stored after it; when the read of the stored cache object
\* fails inside setCachedData, the entries of the other keys are still
\* stored after it.
C23_FailedReadLosesNothing ==
    [][/\ (SaveOnFault \/ DeleteOnFault \/ CleanupOnFault) => RecordsKept
       /\ SetCachedOnFault => EntriesKept]_vars

\* every key but the one the call names keeps its entry
OtherKeysKept == \A k \in CacheKeys : k # last'.key => cache'[k] = cache[k]

\* C24: getCachedData on an entry whose expiry has passed returns absent and
\* removes that entry from the stored cache in the same call; setCachedData
\* on a key that has an entry replaces its data and expiry; both leave the
\* entries of all other keys as they were.
C24_EvictAndOverwrite ==
    [][/\ (CallGetCached /\ cache[last'.key] # NoEntry /\ now > cache[last'.key].expiry)
              => /\ last'.data = "absent"
                 /\ cache'[last'.key] = NoEntry
                 /\ OtherKeysKept
       /\ (CallSetCached /\ cache[last'.key] # NoEntry)
              => /\ cache'[last'.key].data = last'.data
                 /\ cache'[last'.key].expiry = now + last'.arg * TicksPerMinute
                 /\ OtherKeysKept]_vars

\* an expired entry has just been evicted while the other key keeps its
\* younger entry
C24_Witness ==
    /\ last.op = "getCachedData"
    /\ last.evicted
    /\ cache[last.key] = NoEntry
    /\ \E k \in CacheKeys : k # last.key /\ cache[k] # NoEntry /\ cache[k].timestamp > 1

\* the count of a label among the records whose status is not healthy
LabelCount(h, name) ==
    Cardinality({i \in 1..Len(h) : h[i].status # "healthy" /\ h[i].result = name})

\* the positions, left to right, of the records that carry a label of the
\* highest count
MostCommonAt(h) ==
    {i \in 1..Len(h) :
        /\ h[i].status # "healthy"
        /\ \A j \in 1..Len(h) :
               h[j].status # "healthy" => LabelCount(h, h[j].result) <= LabelCount(h, h[i].result)}

FirstMostCommon(h) ==
    IF MostCommonAt(h) = {} THEN "null"
    ELSE h[CHOOSE i \in MostCommonAt(h) : \A j \in MostCommonAt(h) : i <= j].result

\* C25: getAnalysisStatistics returns as mostCommonDisease the label with the
\* highest count among the records that are not healthy, and among labels of
\* equal count the one met first when the history is read newest first.
C25_MostCommonFirstOnTie ==
    [][(CallStatistics /\ ~last'.threw) =>
          last'.stats.mostCommonDisease = FirstMostCommon(history)]_vars

\* the value a preference field has for the application
PreferenceValue(stored, key) == getUserPreferences(stored, FALSE).fields[key]

\* C27: constructing StorageManager writes the defaults only when no
\* preferences are stored and leaves stored preferences as they are; with
\* storage access granted, setUserPreference(key, value) gives the field
\* `key` the value and every other field keeps its value.
C27_PreferencesChangeBySetter ==
    [][/\ Construct => (prefs' = prefs \/ (prefs.kind = "none" /\ prefs' = DefaultPreferences))
       /\ (CallSetPreference /\ ~denied) =>
              \A k \in PrefKeys :
                  PreferenceValue(prefs', k) = IF k = last'.key THEN last'.data
                                               ELSE PreferenceValue(prefs, k)]_vars

\* C28: the history operations leave the stored cache and preferences as
\* they were, the cache operations leave the stored history and preferences
\* as they were, and setUserPreference leaves the history and the cache as
\* they were.
C28_KeysIndependent ==
    [][/\ HistoryOperation => (cache' = cache /\ prefs' = prefs)
       /\ CacheOperation =>
              (history' = history /\ historyKind' = historyKind /\ prefs' = prefs)
       /\ CallSetPreference =>
              (history' = history /\ historyKind' = historyKind /\ cache' = cache)]_vars

\* all three keys hold data and the history has just been cleared
C28_Witness ==
    /\ last.op = "clearAnalysisHistory"
    /\ history = <<>>
    /\ appended # <<>>
    /\ cache["diseases"] # NoEntry
    /\ cache["tips_en"] # NoEntry
    /\ prefs # DefaultPreferences
====
